---- MODULE Spec2Model ----
(***************************************************************************)
(* react-cargo: the CargoStore container of src/index.ts (createStore,     *)
(* get, set, emit, addListeners, unsubscribe, the resetter of              *)
(* useResetStore) with its helpers collateState, spreadArray and           *)
(* makeUniqueKeys.                                                         *)
(*                                                                         *)
(* JavaScript objects and arrays are mutable and shared by reference, so   *)
(* the model keeps a heap of nodes; a value is a primitive or a reference  *)
(* to a node.  Values are records [t, n] of one shape:                     *)
(*   t = "num"   the number n                                              *)
(*   t = "bool"  false (n = 0) or true (n = 1)                             *)
(*   t = "undef" undefined (the result of reading a missing property)      *)
(*   t = "fn"    a function value; n is the number it returns when called  *)
(*   t = "ref"   the object or array stored at heap address n              *)
(* null and strings as state values are outside the inputs drawn here.     *)
(***************************************************************************)
EXTENDS Integers, Sequences, FiniteSets, TLC

VARIABLES
    heap,       \* the objects and arrays that exist: a sequence of nodes
    tmpl,       \* which initial state createStore was called with
    state,      \* CargoStore.state
    default,    \* CargoStore.default
    key,        \* CargoStore.key
    listeners,  \* CargoStore.listeners
    events,     \* CargoStore.events: the registrations, in registration order
    held,       \* the value a caller received from its last get()
    call,       \* the last operation called: its name, its argument as a tree (for
                \* unsubscribe, how many registrations it removed) and its listeners
    fired,      \* the callback invocations of the last operation, in order
    err,        \* whether the last operation threw
    store       \* the registry API's CreateStore.store: its entries by key

vars == <<heap, tmpl, state, default, key, listeners, events, held, call, fired, err,
          store>>

(***************************************************************************)
(* Bounds of the model.                                                    *)
(***************************************************************************)
\* set calls that would grow an array are taken only below this length
MaxLen == 4
\* the subscribers (setState functions) that exist, named 1..MaxSubs
MaxSubs == 2
\* array indices a partial may name, and the range parseInt is computed on
MaxIndex == 3

(***************************************************************************)
(* Values.                                                                 *)
(***************************************************************************)
Num(n) == [t |-> "num", n |-> n]
False == [t |-> "bool", n |-> 0]
True == [t |-> "bool", n |-> 1]
Undef == [t |-> "undef", n |-> 0]
Fn(n) == [t |-> "fn", n |-> n]
Ref(a) == [t |-> "ref", n |-> a]

\* typeof v == "object"
TypeofObject(v) == v.t = "ref"

\* Array.isArray(v)
IsArray(h, v) == v.t = "ref" /\ h[v.n].arr

\* the own enumerable keys of v in enumeration order (for-in, Object.keys);
\* a number, boolean or function has none
OwnKeys(h, v) == IF v.t = "ref" THEN h[v.n].ks ELSE <<>>

\* v.hasOwnProperty(k), for v other than undefined
HasOwn(h, v, k) == \E i \in 1..Len(OwnKeys(h, v)) : OwnKeys(h, v)[i] = k

\* v[k], for v other than undefined: undefined when v has no such property
GetProp(h, v, k) ==
    IF HasOwn(h, v, k)
    THEN h[v.n].vs[CHOOSE i \in 1..Len(h[v.n].ks) : h[v.n].ks[i] = k]
    ELSE Undef

\* v?.[k]
OptProp(h, v, k) == IF v.t = "undef" THEN Undef ELSE GetProp(h, v, k)

\* o[k] = x on an object node that has the key k
SetProp(h, o, k, x) ==
    LET i == CHOOSE j \in 1..Len(h[o.n].ks) : h[o.n].ks[j] = k
    IN [h EXCEPT ![o.n].vs[i] = x]

\* the keys "0", "1", ... of an array of length n
IndexKeys(n) == [i \in 1..n |-> ToString(i - 1)]

NaN == 0 - 1

\* parseInt(k) for the keys of the model: an index, or NaN
parseInt(k) ==
    IF \E i \in 0..MaxIndex : ToString(i) = k
    THEN CHOOSE i \in 0..MaxIndex : ToString(i) = k
    ELSE NaN

Min(a, b) == IF a < b THEN a ELSE b

\* splice that never deletes: the deleteCount argument is dropped
splice_KeepsOld(h, a, start, deleteCount, item) ==
    LET vs == h[a.n].vs
        len == Len(vs)
        from == IF start = NaN THEN 0 ELSE Min(start, len)
        out == SubSeq(vs, 1, from) \o <<item>> \o SubSeq(vs, from + 1, len)
    IN [h EXCEPT ![a.n].vs = out, ![a.n].ks = IndexKeys(Len(out))]

\* a.splice(start, deleteCount, item) on the array a
splice(h, a, start, deleteCount, item) ==
    LET vs == h[a.n].vs
        len == Len(vs)
        from == IF start = NaN THEN 0 ELSE Min(start, len)
        del == Min(deleteCount, len - from)
        out == SubSeq(vs, 1, from) \o <<item>> \o SubSeq(vs, from + del + 1, len)
    IN [h EXCEPT ![a.n].vs = out, ![a.n].ks = IndexKeys(Len(out))]

(***************************************************************************)
(* Structural values (trees): what a value looks like with references      *)
(* followed.  A tree is [t, n, ks, vs] with t = "obj" or "arr" for a       *)
(* structure and ks, vs empty for a primitive.                             *)
(***************************************************************************)
Leaf(v) == [t |-> v.t, n |-> v.n, ks |-> <<>>, vs |-> <<>>]
Obj(ks, vs) == [t |-> "obj", n |-> 0, ks |-> ks, vs |-> vs]
Arr(vs) == [t |-> "arr", n |-> 0, ks |-> IndexKeys(Len(vs)), vs |-> vs]
N(n) == Leaf(Num(n))
F == Leaf(False)
T == Leaf(True)

RECURSIVE ToTree(_, _)
ToTree(h, v) ==
    IF v.t = "ref"
    THEN [t |-> IF h[v.n].arr THEN "arr" ELSE "obj", n |-> 0, ks |-> h[v.n].ks,
          vs |-> [i \in 1..Len(h[v.n].vs) |-> ToTree(h, h[v.n].vs[i])]]
    ELSE Leaf(v)

\* a caller building the value tr: fresh objects, the children before the parent
RECURSIVE Alloc(_, _)
RECURSIVE AllocAll(_, _, _)
AllocAll(h, trees, acc) ==
    IF trees = <<>> THEN [h |-> h, vs |-> acc]
    ELSE LET r == Alloc(h, Head(trees))
         IN AllocAll(r.h, Tail(trees), Append(acc, r.v))

Alloc(h, tr) ==
    IF tr.t \notin {"obj", "arr"} THEN [h |-> h, v |-> [t |-> tr.t, n |-> tr.n]]
    ELSE LET kids == AllocAll(h, tr.vs, <<>>)
             node == [arr |-> tr.t = "arr", ks |-> tr.ks, vs |-> kids.vs]
         IN [h |-> Append(kids.h, node), v |-> Ref(Len(kids.h) + 1)]

\* JSON.stringify: a property of an object whose value is undefined or a function
\* is left out (the arrays of the model hold no such element)
RECURSIVE JsonTree(_)
JsonTree(tr) ==
    IF tr.t = "obj"
    THEN LET keep == SelectSeq([i \in 1..Len(tr.ks) |-> i],
                               LAMBDA i : tr.vs[i].t \notin {"undef", "fn"})
         IN Obj([j \in 1..Len(keep) |-> tr.ks[keep[j]]],
                [j \in 1..Len(keep) |-> JsonTree(tr.vs[keep[j]])])
    ELSE IF tr.t = "arr"
    THEN Arr([i \in 1..Len(tr.vs) |-> JsonTree(tr.vs[i])])
    ELSE tr

\* JSON.parse(JSON.stringify(v)): a structurally equal value made of new objects
JsonCopy(h, v) == Alloc(h, JsonTree(ToTree(h, v)))

(***************************************************************************)
(* makeUniqueKeys (src/index.ts 456-476).                                  *)
(***************************************************************************)
\* pushableKey.join(".")
RECURSIVE JoinDot(_)
JoinDot(ks) ==
    IF Len(ks) = 0 THEN ""
    ELSE IF Len(ks) = 1 THEN ks[1]
    ELSE ks[1] \o "." \o JoinDot(Tail(ks))

\* The loop over Object.keys(data).  parentkey and accumulator are arrays shared
\* by every level of the recursion, so both are threaded through: the result is
\* [pk, acc], their contents when the loop ends.  A key pushed on parentkey is
\* never removed.
RECURSIVE mukLoop(_, _, _, _, _)
mukLoop(h, data, keys, pk, acc) ==
    IF keys = <<>> THEN [pk |-> pk, acc |-> acc]
    ELSE LET k == Head(keys)
             v == GetProp(h, data, k)
         IN IF TypeofObject(v)
            THEN LET r == mukLoop(h, v, OwnKeys(h, v), Append(pk, k), acc)
                 IN mukLoop(h, data, Tail(keys), r.pk, r.acc)
            ELSE IF v # False
            THEN mukLoop(h, data, Tail(keys), pk, Append(acc, JoinDot(Append(pk, k))))
            ELSE mukLoop(h, data, Tail(keys), pk, acc)

makeUniqueKeys(h, data) ==
    IF ~TypeofObject(data) THEN <<>>
    ELSE mukLoop(h, data, OwnKeys(h, data), <<>>, <<>>).acc

(***************************************************************************)
(* spreadArray (src/index.ts 432-445).  The result is the heap after the   *)
(* call; nextState is an array.                                            *)
(***************************************************************************)
RECURSIVE spreadArray(_, _, _)
RECURSIVE spreadLoop(_, _, _, _)
\* if (parseInt(key) > nextState.length) nextState.splice(parseInt(key), 0, ...)
spreadInsert(h, appendable, nextState, k, idx) ==
    IF idx # NaN /\ idx > Len(h[nextState.n].vs)
    THEN splice(h, nextState, idx, 0, GetProp(h, appendable, k))
    ELSE h

\* the body of the own-property test: value is appendable[key], slot nextState[key]
spreadOwn(h, appendable, nextState, keys, k, value, slot) ==
    IF TypeofObject(value) /\ IsArray(h, slot)
    THEN spreadArray(h, value, slot)
    ELSE spreadLoop(splice(h, nextState, parseInt(k), 1, value),
                    appendable, nextState, Tail(keys))

\* the rest of one iteration, h being the heap after the first statement
spreadKey(h, appendable, nextState, keys, k) ==
    IF ~HasOwn(h, appendable, k)
    THEN spreadLoop(h, appendable, nextState, Tail(keys))
    ELSE spreadOwn(h, appendable, nextState, keys, k,
                   GetProp(h, appendable, k), GetProp(h, nextState, k))

\* the for-in loop over appendable, keys being the keys still to visit
spreadLoop(h, appendable, nextState, keys) ==
    IF keys = <<>> THEN h
    ELSE spreadKey(spreadInsert(h, appendable, nextState, Head(keys), parseInt(Head(keys))),
                   appendable, nextState, keys, Head(keys))

spreadArray(h, appendable, nextState) ==
    spreadLoop(h, appendable, nextState, OwnKeys(h, appendable))

(***************************************************************************)
(* collateState (src/index.ts 405-430).  The result is [h, err]: the heap  *)
(* after the call and whether it threw a TypeError (reading a property of  *)
(* undefined); what was written before the throw stays written.            *)
(***************************************************************************)
RECURSIVE collateState(_, _, _, _)
RECURSIVE collateLoop(_, _, _, _, _)
\* a key whose value is not an object: the assignment of line 423 and its test
collateLeaf(h, stateSlice, nextState, appendableState, keys, k) ==
    IF appendableState.t = "undef"
    THEN [h |-> h, err |-> TRUE]
    ELSE IF HasOwn(h, appendableState, k)
    THEN collateLoop(SetProp(h, nextState, k, OptProp(h, appendableState, k)),
                     stateSlice, nextState, appendableState, Tail(keys))
    ELSE collateLoop(h, stateSlice, nextState, appendableState, Tail(keys))

\* the loop goes on after the recursive call returned r, unless it threw
collateRest(r, stateSlice, nextState, appendableState, keys) ==
    IF r.err THEN r
    ELSE collateLoop(r.h, stateSlice, nextState, appendableState, Tail(keys))

\* collateState(value, nextState[key], appendableState?.[key])
collateInner(h, value, nextState, appendableState, k) ==
    collateState(h, value, GetProp(h, nextState, k), OptProp(h, appendableState, k))

\* a key whose value is an object, slot being nextState[key]
collateObject(h, stateSlice, nextState, appendableState, keys, k, value, slot) ==
    IF IsArray(h, slot) /\ appendableState.t = "undef"
    THEN [h |-> h, err |-> TRUE]
    ELSE collateRest(collateInner(IF IsArray(h, slot)
                                  THEN spreadArray(h, GetProp(h, appendableState, k), slot)
                                  ELSE h,
                                  value, nextState, appendableState, k),
                     stateSlice, nextState, appendableState, keys)

\* one iteration that writes to a key whatever its value is
collateKey_OverwritesFalse(h, stateSlice, nextState, appendableState, keys, k, value) ==
    IF ~HasOwn(h, stateSlice, k)
    THEN collateLoop(h, stateSlice, nextState, appendableState, Tail(keys))
    ELSE IF TypeofObject(value)
    THEN collateObject(h, stateSlice, nextState, appendableState, keys, k, value,
                       GetProp(h, nextState, k))
    ELSE collateLeaf(h, stateSlice, nextState, appendableState, keys, k)

\* one iteration, value being stateSlice[key]
collateKey(h, stateSlice, nextState, appendableState, keys, k, value) ==
    IF ~HasOwn(h, stateSlice, k)
    THEN collateLoop(h, stateSlice, nextState, appendableState, Tail(keys))
    ELSE IF TypeofObject(value)
    THEN collateObject(h, stateSlice, nextState, appendableState, keys, k, value,
                       GetProp(h, nextState, k))
    ELSE IF value = False
    THEN collateLoop(h, stateSlice, nextState, appendableState, Tail(keys))
    ELSE collateLeaf(h, stateSlice, nextState, appendableState, keys, k)

\* the for-in loop over stateSlice, keys being the keys still to visit
collateLoop(h, stateSlice, nextState, appendableState, keys) ==
    IF keys = <<>> THEN [h |-> h, err |-> FALSE]
    ELSE collateKey(h, stateSlice, nextState, appendableState, keys, Head(keys),
                    GetProp(h, stateSlice, Head(keys)))

\* o with the keys of part it lacks added after its own, new being those keys
AddKeys(h, o, part, new) ==
    [h EXCEPT ![o.n].ks = @ \o new,
              ![o.n].vs = @ \o [i \in 1..Len(new) |-> GetProp(h, part, new[i])]]

AddNewKeys(r, o, part) ==
    IF r.err \/ part.t # "ref" THEN r
    ELSE [r EXCEPT !.h = AddKeys(r.h, o, part,
                                 SelectSeq(OwnKeys(r.h, part),
                                           LAMBDA k : ~HasOwn(r.h, o, k)))]

\* a merge that also takes over the keys of the partial that the state lacks
collateState_AddsKeys(h, stateSlice, nextState, appendableState) ==
    IF IsArray(h, nextState)
    THEN [h |-> spreadArray(h, appendableState, nextState), err |-> FALSE]
    ELSE AddNewKeys(collateLoop(h, stateSlice, nextState, appendableState,
                                OwnKeys(h, stateSlice)),
                    nextState, appendableState)

collateState(h, stateSlice, nextState, appendableState) ==
    IF IsArray(h, nextState)
    THEN [h |-> spreadArray(h, appendableState, nextState), err |-> FALSE]
    ELSE collateLoop(h, stateSlice, nextState, appendableState, OwnKeys(h, stateSlice))

(***************************************************************************)
(* Objects no longer reachable from the container or its callers are       *)
(* dropped and the remaining ones renumbered in the order a walk from the  *)
(* roots meets them: addresses are not observable in the program, so two   *)
(* heaps that differ only in them are the same state.                      *)
(***************************************************************************)
InSeq(x, s) == \E i \in 1..Len(s) : s[i] = x

RECURSIVE Reach(_, _, _)
\* the addresses reachable from the values todo, in the order met
Reach(h, todo, seen) ==
    IF todo = <<>> THEN seen
    ELSE LET v == Head(todo)
         IN IF v.t # "ref" \/ InSeq(v.n, seen)
            THEN Reach(h, Tail(todo), seen)
            ELSE Reach(h, h[v.n].vs \o Tail(todo), Append(seen, v.n))

Renumber(order, v) ==
    IF v.t = "ref" THEN Ref(CHOOSE i \in 1..Len(order) : order[i] = v.n) ELSE v

CompactBy(h, roots, order) ==
    [h |-> [i \in 1..Len(order) |->
              [h[order[i]] EXCEPT !.vs = [j \in 1..Len(h[order[i]].vs) |->
                                            Renumber(order, h[order[i]].vs[j])]]],
     vs |-> [i \in 1..Len(roots) |-> Renumber(order, roots[i])]]

Compact(h, roots) == CompactBy(h, roots, Reach(h, roots, <<>>))

(***************************************************************************)
(* createStore / the CargoStore constructor (src/index.ts 26-34, 395-403). *)
(***************************************************************************)
\* the initial states createStore is called with
Templates == {"prim", "flat", "nested", "list"}

InitialTree(id) ==
    CASE id = "prim" -> N(0)
      [] id = "flat" -> Obj(<<"a", "f">>, <<N(1), F>>)
      [] id = "nested" -> Obj(<<"a", "b">>, <<N(1), Obj(<<"c", "d">>, <<N(2), N(3)>>)>>)
      [] id = "list" -> Obj(<<"list">>, <<Arr(<<Arr(<<N(1)>>), N(2)>>)>>)

\* the key createStore is called with
StoreKey == "store"

\* this.default = typeof state == "object" ? JSON.parse(JSON.stringify(state)) : state
DefaultOf(h, st) == IF TypeofObject(st) THEN JsonCopy(h, st) ELSE [h |-> h, v |-> st]

\* this.listeners = uniqueKeys.length ? uniqueKeys : [key]
OrKey(uniqueKeys, k) == IF Len(uniqueKeys) > 0 THEN uniqueKeys ELSE <<k>>

ListenersOf(h, st, k) == OrKey(makeUniqueKeys(h, st), k)

\* the fields of the new container, c being the compacted heap with its roots
Fields(c, ls) == [h |-> c.h, state |-> c.vs[1], default |-> c.vs[2], listeners |-> ls]

WithDefault(d, st, ls) == Fields(Compact(d.h, <<st, d.v>>), ls)

\* the container new CargoStore(key, st) builds, st being a reference into h
Construct(h, st, k) == WithDefault(DefaultOf(h, st), st, ListenersOf(h, st, k))

ConstructFrom(a, k) == Construct(a.h, a.v, k)

Created(id) == ConstructFrom(Alloc(<<>>, InitialTree(id)), StoreKey)

\* new CreateStore(): this.store = {}
EmptyStore == [k \in {} |-> Undef]

InitOf(ids) ==
    /\ tmpl \in ids
    /\ \E c \in {Created(tmpl)} :
          /\ heap = c.h
          /\ state = c.state
          /\ default = c.default
          /\ listeners = c.listeners
    /\ key = StoreKey
    /\ events = <<>>
    /\ held = Undef
    /\ call = [op |-> "createStore", arg |-> InitialTree(tmpl), ls |-> <<>>]
    /\ fired = <<>>
    /\ err = FALSE
    /\ store = EmptyStore

Init == InitOf(Templates)

(***************************************************************************)
(* emit and the callbacks addListeners registers (src/index.ts 58-80).     *)
(***************************************************************************)
\* the callback that hands the live state to setState, without the copy
Payload_Live(h, st) == [h |-> h, v |-> st]

\* what the callback registered by addListeners hands to setState, as [h, v]: a
\* JSON copy of a structured state (new objects), the state itself otherwise
Payload(h, st) == IF TypeofObject(st) THEN JsonCopy(h, st) ELSE [h |-> h, v |-> st]

RECURSIVE EmitRegs(_, _, _, _)
\* the callback of the registration Head(regs) ran and was handed c.v
EmitCall(regs, c, st, acc) ==
    EmitRegs(Tail(regs), c.h, st,
             Append(acc, [path |-> Head(regs).path, cb |-> Head(regs).cb, payload |-> c.v]))

\* the callbacks regs are called one after the other, each making its own copy
EmitRegs(regs, h, st, acc) ==
    IF regs = <<>> THEN [h |-> h, fired |-> acc]
    ELSE EmitCall(regs, Payload(h, st), st, acc)

\* this.events.emit(listener, state): the callbacks registered under listener,
\* in registration order
EmitOne(ev, h, listener, st, acc) ==
    EmitRegs(SelectSeq(ev, LAMBDA r : r.path = listener), h, st, acc)

RECURSIVE emitLoop(_, _, _, _)
\* for (const listener of listeners), r being the heap and the invocations so far
emitLoop(ev, r, ls, st) ==
    IF ls = <<>> THEN r
    ELSE emitLoop(ev, EmitOne(ev, r.h, Head(ls), st, r.fired), Tail(ls), st)

\* the heap and the invocations [path, cb, payload] after emit(ls, st)
emit(ev, h, ls, st) == emitLoop(ev, [h |-> h, fired |-> <<>>], ls, st)

\* the paths set fires, always the container's own listener list when no explicit
\* list is given, instead of the paths derived from the partial
SetListeners_Own(h, st, lsn, p, ls) == IF Len(ls) > 0 THEN ls ELSE lsn

\* if (!listeners?.length) listeners = isNonPrimitiveState ? makeUniqueKeys(state)
\* : this.listeners
SetListeners(h, st, lsn, p, ls) ==
    IF Len(ls) > 0 THEN ls
    ELSE IF TypeofObject(st) THEN makeUniqueKeys(h, p)
    ELSE lsn

\* the result of a set that went through to the emit e
Emitted(e, nextState) == [h |-> e.h, state |-> nextState, fired |-> e.fired, err |-> FALSE]

\* this.state = nextState and the emit, r being what collateState left; nothing of
\* it when collateState threw
SetEmit(r, st, lsn, ev, p, ls, nextState) ==
    IF r.err
    THEN [h |-> r.h, state |-> st, fired |-> <<>>, err |-> TRUE]
    ELSE Emitted(emit(ev, r.h, SetListeners(r.h, st, lsn, p, ls), nextState), nextState)

\* the merge of p into a structured state; a primitive state has none
SetMerge(h, st, p) ==
    IF TypeofObject(st) THEN collateState(h, st, st, p) ELSE [h |-> h, err |-> FALSE]

\* set that calls a function argument with the current state and applies what it
\* returns (here the function returns the state it was given)
SetResult_InvokesUpdater(h, st, lsn, ev, p, ls) ==
    IF p.t = "fn"
    THEN SetEmit(SetMerge(h, st, st), st, lsn, ev, st, ls, st)
    ELSE SetEmit(SetMerge(h, st, p), st, lsn, ev, p, ls,
                 IF TypeofObject(st) THEN st ELSE p)

(***************************************************************************)
(* CargoStore.set (src/index.ts 41-50): the result of set(p, ls) as        *)
(* [h, state, fired, err].                                                 *)
(***************************************************************************)
SetResult(h, st, lsn, ev, p, ls) ==
    SetEmit(SetMerge(h, st, p), st, lsn, ev, p, ls, IF TypeofObject(st) THEN st ELSE p)

\* the length of the longest array reachable from v
RECURSIVE LongestArray(_)
LongestArray(tr) ==
    LET kids == {LongestArray(tr.vs[i]) : i \in 1..Len(tr.vs)}
        own == IF tr.t = "arr" THEN Len(tr.vs) ELSE 0
    IN IF \E n \in kids : n > own THEN CHOOSE n \in kids : \A m \in kids : m <= n
       ELSE own

\* the container and its callers after a call: the heap compacted, with the
\* container's state and default, what a caller holds, the invocations and the error
Packed(c, fd, er) ==
    [h |-> c.h, state |-> c.vs[1], default |-> c.vs[2], held |-> c.vs[3],
     fired |-> [i \in 1..Len(fd) |-> [fd[i] EXCEPT !.payload = c.vs[3 + i]]],
     err |-> er]

\* the values the callbacks of the invocations fd were handed
Payloads(fd) == [i \in 1..Len(fd) |-> fd[i].payload]

After(h, st, df, hd, fd, er) == Packed(Compact(h, <<st, df, hd>> \o Payloads(fd)), fd, er)

\* a call after which the container derives its listeners anew from its state
Commit_RecomputesListeners(r, c) ==
    /\ heap' = r.h
    /\ state' = r.state
    /\ default' = r.default
    /\ held' = r.held
    /\ fired' = r.fired
    /\ err' = r.err
    /\ call' = c
    /\ listeners' = ListenersOf(r.h, r.state, key)
    /\ UNCHANGED <<tmpl, key, events, store>>

Commit(r, c) ==
    /\ heap' = r.h
    /\ state' = r.state
    /\ default' = r.default
    /\ held' = r.held
    /\ fired' = r.fired
    /\ err' = r.err
    /\ call' = c
    /\ UNCHANGED <<tmpl, key, listeners, events, store>>

\* an operation that calls no callback and ends normally or (er) by throwing: what
\* the last dispatch handed out is no longer followed
Ended(r, er) ==
    /\ heap' = r.h
    /\ state' = r.state
    /\ default' = r.default
    /\ held' = r.held
    /\ fired' = <<>>
    /\ err' = er
    /\ UNCHANGED <<tmpl, key, listeners, store>>

Quiet(r) == Ended(r, FALSE)

\* a call of set with the value p (a reference into the heap h) and the explicit
\* listeners ls
Settled(r, df, hd) == After(r.h, r.state, df, hd, r.fired, r.err)

SetOutcome(h, p, ls) == Settled(SetResult(h, state, listeners, events, p, ls), default, held)

Bounded(r) == LongestArray(ToTree(r.h, r.state)) <= MaxLen

Guarded(r, c) == Bounded(r) /\ Commit(r, c)

DoSet(h, p, ls, name) ==
    Guarded(SetOutcome(h, p, ls), [op |-> name, arg |-> ToTree(h, p), ls |-> ls])

\* store.set(p, ls) by a caller that builds the value p
SetCall(a, ls) == DoSet(a.h, a.v, ls, "set")

Set(p, ls) == SetCall(Alloc(heap, p), ls)

\* the registrations of the emitter ev
Registered(ev) == {ev[i] : i \in 1..Len(ev)}

(***************************************************************************)
(* set and emit when a callback calls set itself (src/index.ts 41-62).     *)
(* r is the run so far, [h, state, fired, err, react]: react names the     *)
(* callback that calls set(react.p) the first time it is invoked.  An      *)
(* invocation is recorded with the depth of the set that made it, the      *)
(* container's state when it was made (now) and whether the callback       *)
(* called set (sets).                                                      *)
(***************************************************************************)
NoReaction == [cb |-> 0, p |-> Leaf(Undef)]

Invocation(reg, v, d, now, sets) ==
    [path |-> reg.path, cb |-> reg.cb, payload |-> v, depth |-> d, now |-> now,
     sets |-> sets]

\* the run after the callback of reg was handed c.v
Invoke(r, reg, c, d, sets) ==
    [r EXCEPT !.h = c.h,
              !.fired = Append(@, Invocation(reg, c.v, d, ToTree(r.h, r.state), sets)),
              !.react = IF sets THEN NoReaction ELSE @]

RECURSIVE ReSet(_, _, _, _, _, _)
\* the callback builds its value a and calls set(a.v)
ReReact(ev, lsn, r, a, d) == ReSet(ev, lsn, [r EXCEPT !.h = a.h], a.v, <<>>, d + 1)

\* a callback that calls set is left to do so after the running dispatch: its set
\* never runs inside the dispatch
ReCalled_Deferred(ev, lsn, r, reg, c, d) == Invoke(r, reg, c, d, reg.cb = r.react.cb)

\* the callback of reg runs: setState(c.v), and its own set when it is the one that
\* reacts
ReCalled(ev, lsn, r, reg, c, d) ==
    IF reg.cb = r.react.cb
    THEN ReReact(ev, lsn, Invoke(r, reg, c, d, TRUE), Alloc(c.h, r.react.p), d)
    ELSE Invoke(r, reg, c, d, FALSE)

RECURSIVE ReRegs(_, _, _, _, _, _)
\* the callbacks regs are called with the emit's argument st; an exception ends it
ReRegs(ev, lsn, r, regs, st, d) ==
    IF regs = <<>> \/ r.err THEN r
    ELSE ReRegs(ev, lsn, ReCalled(ev, lsn, r, Head(regs), Payload(r.h, st), d),
                Tail(regs), st, d)

RECURSIVE ReEmit(_, _, _, _, _, _)
\* for (const listener of listeners) this.events.emit(listener, state)
ReEmit(ev, lsn, r, ls, st, d) ==
    IF ls = <<>> \/ r.err THEN r
    ELSE ReEmit(ev, lsn,
                ReRegs(ev, lsn, r, SelectSeq(ev, LAMBDA g : g.path = Head(ls)), st, d),
                Tail(ls), st, d)

\* this.state = nextState; this.emit(listeners, nextState)
ReAssign(ev, lsn, r, ls, nextState, d) ==
    ReEmit(ev, lsn, [r EXCEPT !.state = nextState], ls, nextState, d)

\* what follows collateState, m being what it left
ReMerged(ev, lsn, r, m, p, ls, d) ==
    IF m.err THEN [r EXCEPT !.h = m.h, !.err = TRUE]
    ELSE ReAssign(ev, lsn, [r EXCEPT !.h = m.h],
                  SetListeners(m.h, r.state, lsn, p, ls),
                  IF TypeofObject(r.state) THEN r.state ELSE p, d)

ReSet(ev, lsn, r, p, ls, d) == ReMerged(ev, lsn, r, SetMerge(r.h, r.state, p), p, ls, d)

\* a run of set that starts with the heap h
Run(h, react) == [h |-> h, state |-> state, fired |-> <<>>, err |-> FALSE, react |-> react]

DispatchCall(a, react) ==
    Guarded(Settled(ReSet(events, listeners, Run(a.h, react), a.v, <<>>, 0), default, held),
            [op |-> "dispatch", arg |-> ToTree(a.h, a.v), ls |-> <<>>, react |-> react])

\* store.set(p) while the callback c is one that calls store.set(q) the first time
\* it is invoked
Dispatch(p, c, q) ==
    /\ \E g \in Registered(events) : g.cb = c
    /\ DispatchCall(Alloc(heap, p), [cb |-> c, p |-> q])

\* the function useResetStore returns (src/index.ts 311-315)
Reset == DoSet(heap, default, <<>>, "reset")

\* store.get() (src/index.ts 36-39), the caller keeping what it returns
Get ==
    Commit(After(heap, state, default, state, <<>>, FALSE),
           [op |-> "get", arg |-> ToTree(heap, state), ls |-> <<>>])

\* the value a caller writes into what get() returned to it
Scribble == Num(99)

\* a caller assigns to the first property (or element) of the object it holds; the
\* other values handed out by the last dispatch are still with their callbacks
Mutate ==
    /\ held.t = "ref"
    /\ Len(heap[held.n].vs) > 0
    /\ heap[held.n].vs[1] # Scribble
    /\ Commit(After([heap EXCEPT ![held.n].vs[1] = Scribble], state, default, held,
                    fired, FALSE),
              [op |-> "mutate", arg |-> ToTree(heap, held), ls |-> <<>>])

\* setState(state) in the callback of the i-th invocation of the last dispatch
\* (src/index.ts 77): the subscriber keeps the value it was handed
Keep(i) ==
    /\ fired[i].payload # held
    /\ Commit(After(heap, state, default, fired[i].payload, fired, err),
              [op |-> "keep", arg |-> N(i), ls |-> <<>>])

\* store.addListeners(setState, paths) (src/index.ts 70-80); cb names setState
AddListeners(cb, paths) ==
    /\ \A r \in Registered(events) : r.cb # cb
    /\ \A c \in 1..(cb - 1) : \E r \in Registered(events) : r.cb = c
    /\ events' = events \o [i \in 1..Len(paths) |-> [path |-> paths[i], cb |-> cb]]
    /\ call' = [op |-> "addListeners", arg |-> N(cb), ls |-> paths]
    /\ Quiet(After(heap, state, default, held, <<>>, FALSE))

\* unsubscribe that stops after the first path of the list
removeAllListeners_FirstOnly(ev, paths) ==
    IF paths = <<>> THEN ev
    ELSE SelectSeq(ev, LAMBDA r : r.path # Head(paths))

\* store.unsubscribe(paths) (src/index.ts 82-86)
RECURSIVE removeAllListeners(_, _)
removeAllListeners(ev, paths) ==
    IF paths = <<>> THEN ev
    ELSE removeAllListeners(SelectSeq(ev, LAMBDA r : r.path # Head(paths)), Tail(paths))

Unsubscribe(paths) ==
    /\ events' = removeAllListeners(events, paths)
    /\ call' = [op |-> "unsubscribe", arg |-> N(Len(events) - Len(events')), ls |-> paths]
    /\ Quiet(After(heap, state, default, held, <<>>, FALSE))

(***************************************************************************)
(* useSelector (src/index.ts 363-384).                                     *)
(***************************************************************************)
\* stateInstance as the hooks see it: the CargoStore object, whatever its state
StoreInstance == [t |-> "ref", n |-> 0]

\* if (typeof stateInstance !== "object") throw new Error(...)
SelectorRejected == ~TypeofObject(StoreInstance)

\* the registrations of addListeners(setState, paths), cb naming setState
Registrations(cb, paths) == [i \in 1..Len(paths) |-> [path |-> paths[i], cb |-> cb]]

\* a component with the setState cb renders useSelector(stateInstance, sel) and
\* mounts, ls being makeUniqueKeys(sel): the error, or the effect's addListeners
UseSelectorWith(cb, sel, ls) ==
    /\ \A r \in Registered(events) : r.cb # cb
    /\ \A c \in 1..(cb - 1) : \E r \in Registered(events) : r.cb = c
    /\ events' = IF SelectorRejected THEN events ELSE events \o Registrations(cb, ls)
    /\ call' = [op |-> "useSelector", arg |-> sel, ls |-> ls]
    /\ Ended(After(heap, state, default, held, <<>>, FALSE), SelectorRejected)

(***************************************************************************)
(* The registry API (src/index.js): one CreateStore whose store maps the   *)
(* keys to StoreState entries [key, default, event], event being the       *)
(* entry's emitter as its registrations in order.  Its values here are     *)
(* primitives.                                                             *)
(***************************************************************************)
Str(s) == [t |-> "str", s |-> s]

EMITTER_KEY == "storefrontevent"

\* `${EMITTER_KEY}-${listenerKey}`
EventName(k) == EMITTER_KEY \o "-" \o k

\* !key, for the keys that are undefined or strings
KeyMissing(k) == k = Undef \/ k = Str("")

\* what a plain object inherits from Object.prototype: constructor stands for
\* all its members
Inherited == {"constructor"}

\* this.store[key] is truthy: an entry of its own, or an inherited member
Present(st, k) == k \in DOMAIN st \/ k \in Inherited

\* { key, default: state = "" }
DefaultParam(d) == IF d = Undef THEN Str("") ELSE d

\* new StoreState(key, state)
StoreState(k, d) == [key |-> k, default |-> d, event |-> <<>>]

\* the two throws of addState
AddStateThrows(st, k) == KeyMissing(k) \/ Present(st, k.s)

addState(st, k, d) ==
    IF AddStateThrows(st, k) THEN st
    ELSE [j \in DOMAIN st \cup {k.s} |->
            IF j = k.s THEN StoreState(k, DefaultParam(d)) ELSE st[j]]

\* the variables of the createStore API, which the registry leaves alone
RegistryFrame == UNCHANGED <<heap, tmpl, state, default, key, listeners, events, held>>

AddState(k, d) ==
    /\ store' = addState(store, k, d)
    /\ err' = AddStateThrows(store, k)
    /\ fired' = <<>>
    /\ call' = [op |-> "addState", arg |-> [key |-> k, default |-> d], ls |-> <<>>]
    /\ RegistryFrame

\* every registration of the registry
Attached(st) == UNION {Registered(st[k].event) : k \in DOMAIN st}

\* a component with the setState cb mounts on the entry addState returned:
\* attachAtomicListener(setState, key)
AttachAtomicListener(k, cb) ==
    /\ k \in DOMAIN store
    /\ \A r \in Attached(store) : r.cb # cb
    /\ \A c \in 1..(cb - 1) : \E r \in Attached(store) : r.cb = c
    /\ store' = [store EXCEPT ![k].event = Append(@, [path |-> EventName(k), cb |-> cb])]
    /\ err' = FALSE
    /\ fired' = <<>>
    /\ call' = [op |-> "attach", arg |-> Str(k), ls |-> <<EventName(k)>>]
    /\ RegistryFrame

\* storeEmitter([key], this.store[key], key): the listeners receive the entry
StoreEmitter(entry, k) ==
    [i \in 1..Len(SelectSeq(entry.event, LAMBDA r : r.path = EventName(k))) |->
        [path |-> EventName(k),
         cb |-> SelectSeq(entry.event, LAMBDA r : r.path = EventName(k))[i].cb,
         payload |-> entry]]

\* the setter useStoreSetter returns, called with a value that is no function
SetStoreValue(k, v) ==
    /\ k \in DOMAIN store
    /\ store' = [store EXCEPT ![k].default = v]
    /\ err' = FALSE
    /\ fired' = StoreEmitter([store[k] EXCEPT !.default = v], k)
    /\ call' = [op |-> "setStoreValue", arg |-> v, ls |-> <<k>>]
    /\ RegistryFrame

\* [...listeners] when listeners is the string key, as useStore passes it: its
\* characters, for the keys the registry is given
Chars(k) ==
    CASE k = "" -> <<>>
      [] k = "k" -> <<"k">>
      [] k = "km" -> <<"k", "m">>
      [] k = "constructor" -> <<"c", "o", "n", "s", "t", "r", "u", "c", "t", "o", "r">>

RECURSIVE StoreEmitterLoop(_, _, _)
\* storeEmitter(listeners, this.store[key], key): for (const key of listeners)
StoreEmitterLoop(entry, ls, acc) ==
    IF ls = <<>> THEN acc
    ELSE StoreEmitterLoop(entry, Tail(ls), acc \o StoreEmitter(entry, Head(ls)))

\* the setter useStore returned to the component with the setState cb, called with
\* a value that is no function: setState(nextState), then the emitter on the
\* characters of the key
UseStoreSet(k, cb, v) ==
    /\ k \in DOMAIN store
    /\ \E g \in Registered(store[k].event) : g.cb = cb
    /\ store' = [store EXCEPT ![k].default = v]
    /\ err' = FALSE
    /\ fired' = <<[path |-> "setState", cb |-> cb, payload |-> v]>>
                \o StoreEmitterLoop([store[k] EXCEPT !.default = v], Chars(k), <<>>)
    /\ call' = [op |-> "useStoreSet", arg |-> v, ls |-> Chars(k), key |-> k]
    /\ RegistryFrame

\* the cleanup of the hooks: unsubscribe(key)
RegistryUnsubscribe(k) ==
    /\ k \in DOMAIN store
    /\ store[k].event # <<>>
    /\ store' = [store EXCEPT ![k].event = removeAllListeners(@, <<EventName(k)>>)]
    /\ err' = FALSE
    /\ fired' = <<>>
    /\ call' = [op |-> "unsubscribe", arg |-> Str(k), ls |-> <<EventName(k)>>]
    /\ RegistryFrame

(***************************************************************************)
(* The inputs of the calls.                                                *)
(***************************************************************************)
Absent == Leaf(Undef)

\* the object with the keys ks[i] whose pick[i] is not Absent, in the order of ks
PartialFrom(ks, pick) ==
    LET present == SelectSeq([i \in 1..Len(ks) |-> i], LAMBDA i : pick[i] # Absent)
    IN Obj([j \in 1..Len(present) |-> ks[present[j]]],
           [j \in 1..Len(present) |-> pick[present[j]]])

\* every object that gives each key ks[i] a value of opts[i] or leaves it out
PartialsOver(ks, opts) ==
    {PartialFrom(ks, pick) :
        pick \in {f \in [1..Len(ks) -> UNION {opts[i] : i \in 1..Len(ks)} \cup {Absent}] :
                    \A i \in 1..Len(ks) : f[i] \in opts[i] \cup {Absent}}}

\* the values a partial writes to a leaf
LeafValues == {N(5), F}

\* the index-keyed partials for an array: at most two indices, in ascending order
\* as for-in visits them, each with a number or a nested index-keyed partial
IndexValues == {N(9), Obj(<<"0">>, <<N(7)>>)}

IndexPairs == {ij \in (0..MaxIndex) \X (0..MaxIndex) : ij[1] < ij[2]}

IndexPartials ==
    {Obj(<<ToString(i)>>, <<v>>) : i \in 0..MaxIndex, v \in IndexValues}
    \cup {Obj(<<ToString(ij[1]), ToString(ij[2])>>, <<v, w>>) :
            ij \in IndexPairs, v \in IndexValues, w \in IndexValues}

\* an updater function, as React's setState accepts
Updater == Leaf(Fn(7))

\* the values set is called with on a container created from each template
PartialsPrim == {N(5), F, Updater}

PartialsFlat ==
    PartialsOver(<<"a", "f">>, <<LeafValues, LeafValues>>)
    \cup {Obj(<<"z">>, <<N(5)>>), Updater}

PartialsNested ==
    PartialsOver(<<"a", "b">>,
                 <<LeafValues,
                   PartialsOver(<<"c", "d">>, <<LeafValues, LeafValues>>) \cup {N(5)}>>)
    \cup {Obj(<<"b", "a">>, <<Obj(<<"c">>, <<N(5)>>), N(5)>>), Updater}

PartialsList ==
    {Obj(<<"list">>, <<p>>) : p \in IndexPartials} \cup {Obj(<<>>, <<>>), Updater}

Partials ==
    [id \in Templates |->
        CASE id = "prim" -> PartialsPrim
          [] id = "flat" -> PartialsFlat
          [] id = "nested" -> PartialsNested
          [] id = "list" -> PartialsList]

\* the selectors useSelector is called with (src/index.ts 363-384)
Selectors(id) ==
    CASE id = "prim" -> {}
      [] id = "flat" -> {Obj(<<"a">>, <<T>>), Obj(<<"f">>, <<T>>)}
      [] id = "nested" -> {Obj(<<"a">>, <<T>>), Obj(<<"b">>, <<Obj(<<"c">>, <<T>>)>>)}
      [] id = "list" -> {Obj(<<"list">>, <<Obj(<<"1">>, <<T>>)>>)}

\* let listeners = makeUniqueKeys(selector)
SelectorPaths(sel) == LET a == Alloc(<<>>, sel) IN makeUniqueKeys(a.h, a.v)

SelectorLists == [id \in Templates |-> {SelectorPaths(sel) : sel \in Selectors(id)}]

\* [stateInstance.key, ...stateInstance.listeners], the paths of useStore,
\* useStoreValue and useStoreSetter (src/index.ts 131-141)
HookPaths == <<key>> \o listeners

\* the path lists addListeners and unsubscribe are called with
PathLists == {HookPaths, <<key>>} \cup SelectorLists[tmpl]

\* the explicit listeners set is called with: none, or those of a useSelector setter
ExplicitListeners == {<<>>} \cup SelectorLists[tmpl]

Next ==
    \/ \E p \in Partials[tmpl], ls \in ExplicitListeners : Set(p, ls)
    \/ Reset
    \/ Get
    \/ Mutate
    \/ \E cb \in 1..MaxSubs, paths \in PathLists : AddListeners(cb, paths)
    \/ \E paths \in PathLists : Unsubscribe(paths)

Spec == Init /\ [][Next]_vars

(***************************************************************************)
(* The container used through a part of its interface: the same actions    *)
(* and inputs, with callers that make only some of the calls.              *)
(***************************************************************************)
\* callers that only set and reset
NextMerge ==
    \/ \E p \in Partials[tmpl] : Set(p, <<>>)
    \/ Reset

SpecMerge == Init /\ [][NextMerge]_vars

\* callers that set, reset, read the state with get and write to what get returned
NextGet ==
    \/ \E p \in Partials[tmpl] : Set(p, <<>>)
    \/ Reset
    \/ Get
    \/ Mutate

SpecGet == InitOf({"flat", "nested"}) /\ [][NextGet]_vars

\* callers that set, reset, subscribe and unsubscribe, on a state without arrays
NextBus ==
    \/ \E p \in Partials[tmpl], ls \in ExplicitListeners : Set(p, ls)
    \/ Reset
    \/ \E cb \in 1..MaxSubs, paths \in PathLists : AddListeners(cb, paths)
    \/ \E paths \in PathLists : Unsubscribe(paths)

SpecBus == InitOf({"prim", "flat"}) /\ [][NextBus]_vars

\* the selectors the components hand to useSelector: maps of the state's first
\* keys, a map of a key the state lacks, and a selector that is no structure
HookSelectors == {Obj(<<"a">>, <<T>>), Obj(<<"f">>, <<T>>), Obj(<<"z">>, <<T>>), T}

UseSelector(cb, sel) == UseSelectorWith(cb, sel, SelectorPaths(sel))

\* components that mount with useSelector, next to callers that set and reset
NextSelect ==
    \/ \E p \in Partials[tmpl] : Set(p, <<>>)
    \/ Reset
    \/ \E cb \in 1..MaxSubs, sel \in HookSelectors : UseSelector(cb, sel)

SpecSelect == InitOf({"prim", "flat"}) /\ [][NextSelect]_vars

\* the structures makeUniqueKeys is applied to: objects of up to three keys whose
\* middle one may hold a nested object or an array, with true and false leaves
KeyLeaves == {T, F}

KeyInner ==
    PartialsOver(<<"c", "d">>, <<KeyLeaves, KeyLeaves>>)
    \cup {Arr(<<T>>), Arr(<<T, F>>), Arr(<<F, T>>)}

KeySelectors == PartialsOver(<<"a", "b", "e">>, <<KeyLeaves, KeyInner, KeyLeaves>>)

\* one component that mounts with a selector and unmounts again
NextKeys ==
    \/ \E sel \in KeySelectors : UseSelector(1, sel)
    \/ events # <<>> /\ Unsubscribe(call.ls)

SpecKeys == InitOf({"nested"}) /\ [][NextKeys]_vars

\* the values set is called with by callers and by callbacks
NestPartials ==
    [id \in {"prim", "flat"} |->
        CASE id = "prim" -> {N(5), N(6)}
          [] id = "flat" -> {Obj(<<"a">>, <<N(5)>>), Obj(<<"a">>, <<N(6)>>),
                             Obj(<<"z">>, <<N(5)>>)}]

\* callers that set while a subscriber's callback sets in turn
NextNest ==
    \/ \E p \in NestPartials[tmpl], c \in 1..MaxSubs, q \in NestPartials[tmpl] :
          Dispatch(p, c, q)
    \/ \E cb \in 1..MaxSubs, paths \in PathLists : AddListeners(cb, paths)
    \/ \E paths \in PathLists : Unsubscribe(paths)

SpecNest == InitOf({"prim", "flat"}) /\ [][NextNest]_vars

\* partials that write false and other values to the leaves of objects and to the
\* slots of arrays
FalsePartials ==
    [id \in {"flat", "nested", "list"} |->
        CASE id = "flat" -> PartialsOver(<<"a", "f">>, <<LeafValues, LeafValues>>)
          [] id = "nested" ->
               {Obj(<<"a", "b">>, <<v, Obj(<<"c", "d">>, <<w, w>>)>>) :
                    v \in LeafValues, w \in LeafValues}
          [] id = "list" ->
               {Obj(<<"list">>, <<Obj(<<ToString(i)>>, <<v>>)>>) :
                    i \in 0..2, v \in LeafValues \cup {Obj(<<"0">>, <<F>>)}}]

NextFalse ==
    \/ \E p \in FalsePartials[tmpl] : Set(p, <<>>)
    \/ Reset

SpecFalse == InitOf({"flat", "nested", "list"}) /\ [][NextFalse]_vars

\* partials that change the state's shape by growing its array, next to partials
\* that keep it
FramePartials ==
    [id \in {"flat", "list"} |->
        CASE id = "flat" -> {Obj(<<"a">>, <<N(5)>>), Obj(<<"z">>, <<N(5)>>)}
          [] id = "list" ->
               {Obj(<<"list">>, <<Obj(<<ToString(i)>>, <<N(9)>>)>>) : i \in 0..MaxIndex}]

\* callers that set and reset, next to subscribers that come and go
NextFrame ==
    \/ \E p \in FramePartials[tmpl] : Set(p, <<>>)
    \/ Reset
    \/ \E cb \in 1..MaxSubs, paths \in {HookPaths, <<key>>} : AddListeners(cb, paths)
    \/ \E paths \in {HookPaths, <<key>>} : Unsubscribe(paths)

SpecFrame == InitOf({"flat", "list"}) /\ [][NextFrame]_vars

\* partials whose shape departs from the state's: index-keyed or keyed partials for
\* a leaf, a number for a nested object, keys the state lacks, next to partials of
\* the state's shape
ShapePartials ==
    [id \in {"flat", "nested"} |->
        CASE id = "flat" ->
               {Obj(<<"a">>, <<Obj(<<"0">>, <<N(9)>>)>>),
                Obj(<<"a">>, <<Obj(<<"x">>, <<N(9)>>)>>),
                Obj(<<"a">>, <<N(5)>>), Obj(<<"a", "f">>, <<N(5), N(5)>>),
                Obj(<<"a", "z">>, <<N(6), N(5)>>)}
          [] id = "nested" ->
               {Obj(<<"b">>, <<N(5)>>),
                Obj(<<"a", "b">>, <<Obj(<<"0">>, <<N(9)>>), Obj(<<"c", "d">>, <<N(5), N(5)>>)>>),
                Obj(<<"a", "b">>, <<N(5), Obj(<<"c", "d">>, <<N(5), N(5)>>)>>),
                Obj(<<"a", "b", "z">>,
                    <<N(6), Obj(<<"c", "d", "e">>, <<N(6), N(6), N(6)>>), N(6)>>)}]

ShapePaths == {<<"a">>, <<"a.0">>, <<"b">>}

NextShape ==
    \/ \E p \in ShapePartials[tmpl] : Set(p, <<>>)
    \/ Reset
    \/ \E cb \in 1..MaxSubs, paths \in ShapePaths : AddListeners(cb, paths)

SpecShape == InitOf({"flat", "nested"}) /\ [][NextShape]_vars

\* the keys and values handed to the registry
RegistryKeys == {Undef, Str(""), Str("k"), Str("km"), Str("constructor")}

RegistryValues == {Num(0), Num(1)}

NextRegistry ==
    \/ \E k \in RegistryKeys, d \in RegistryValues \cup {Undef} : AddState(k, d)
    \/ \E k \in DOMAIN store, cb \in 1..MaxSubs : AttachAtomicListener(k, cb)
    \/ \E k \in DOMAIN store, v \in RegistryValues : SetStoreValue(k, v)
    \/ \E k \in DOMAIN store, cb \in 1..MaxSubs, v \in RegistryValues : UseStoreSet(k, cb, v)
    \/ \E k \in DOMAIN store : RegistryUnsubscribe(k)

SpecRegistry == InitOf({"prim"}) /\ [][NextRegistry]_vars

\* the partials set is called with next to subscribers that keep what they are
\* handed: on the nested state, two that its merge accepts
HandPartials ==
    [id \in Templates |->
        IF id = "nested"
        THEN {Obj(<<"b">>, <<Obj(<<"c">>, <<N(5)>>)>>),
              Obj(<<"a", "b">>, <<N(5), Obj(<<"d">>, <<N(5)>>)>>)}
        ELSE Partials[id]]

\* subscribers mounted with useStore that keep the value their callback was handed
\* and write to it
NextHand ==
    \/ \E p \in HandPartials[tmpl] : Set(p, <<>>)
    \/ Reset
    \/ \E cb \in 1..MaxSubs : AddListeners(cb, HookPaths)
    \/ \E i \in 1..Len(fired) : Keep(i)
    \/ Mutate

SpecHand == InitOf({"flat", "nested"}) /\ [][NextHand]_vars

\* the partials set is called with on the nested state next to subscribers of its
\* paths: leaves of the nested object, a leaf after the nested object, a leaf
\* without the nested object, leaves set to false
PathPartials ==
    {Obj(<<"b">>, <<Obj(<<"c">>, <<N(5)>>)>>),
     Obj(<<"a", "b">>, <<N(5), Obj(<<"d">>, <<N(5)>>)>>),
     Obj(<<"b", "a">>, <<Obj(<<"c">>, <<N(5)>>), N(5)>>),
     Obj(<<"a">>, <<N(5)>>),
     Obj(<<"a", "b">>, <<F, Obj(<<"c">>, <<F>>)>>)}

\* callers that set with and without explicit listeners, next to subscribers
NextPaths ==
    \/ \E p \in PathPartials, ls \in ExplicitListeners : Set(p, ls)
    \/ \E cb \in 1..MaxSubs, paths \in PathLists : AddListeners(cb, paths)

SpecPaths == InitOf({"nested"}) /\ [][NextPaths]_vars

(***************************************************************************)
(* The claims.                                                             *)
(***************************************************************************)
StateTree == ToTree(heap, state)
DefaultTree == ToTree(heap, default)
IsLeaf(tr) == tr.t \notin {"obj", "arr"}
KeysOf(tr) == {tr.ks[i] : i \in 1..Len(tr.ks)}
At(tr, k) == tr.vs[CHOOSE i \in 1..Len(tr.ks) : tr.ks[i] = k]
Calls(fd) == [i \in 1..Len(fd) |-> [path |-> fd[i].path, cb |-> fd[i].cb]]
Invoked(fd, p, cb) == \E i \in 1..Len(fd) : fd[i].path = p /\ fd[i].cb = cb
Range(s) == {s[i] : i \in 1..Len(s)}
Addresses(h, v) == Range(Reach(h, <<v>>, <<>>))

\* C1: get() returns a deep, independent copy: two get() calls with no call between
\* them return structurally equal values, and a caller writing to a value that
\* get() returned changes neither the container's state nor anything else.
C1_GetReturnsIndependentCopy ==
    [][/\ (call.op = "get" /\ call'.op = "get") => call'.arg = call.arg
       /\ call'.op = "mutate" => ToTree(heap', state') = ToTree(heap, state)]_vars

\* post differs from pre only at the leaves for which part supplies a value
RECURSIVE Preserved(_, _, _)
Preserved(pre, post, part) ==
    IF IsLeaf(pre)
    THEN post = pre \/ (part # Absent /\ post = part)
    ELSE /\ post.t = pre.t
         /\ post.ks = pre.ks
         /\ \A i \in 1..Len(pre.ks) :
               Preserved(pre.vs[i], post.vs[i],
                         IF part.t = "obj" /\ pre.ks[i] \in KeysOf(part)
                         THEN At(part, pre.ks[i]) ELSE Absent)

\* C2: on an object-shaped state (nested objects included), set with a partial
\* that omits some of the state's keys completes normally, leaves the value at
\* every omitted key unchanged and overwrites only the leaves the partial supplies.
C2_PartialMergePreservesOmitted ==
    [][(/\ call'.op = "set"
        /\ tmpl \in {"flat", "nested"}
        /\ call'.arg.t = "obj"
        /\ KeysOf(ToTree(heap, state)) \ KeysOf(call'.arg) # {})
       => /\ ~err'
          /\ Preserved(ToTree(heap, state), ToTree(heap', state'), call'.arg)]_vars

\* the case of C3: a set without explicit listeners, on an object whose leaves are
\* all primitive, with a partial of primitive values none of which is false
C3_Case ==
    /\ call.op = "set"
    /\ call.ls = <<>>
    /\ StateTree.t = "obj"
    /\ \A i \in 1..Len(StateTree.vs) : IsLeaf(StateTree.vs[i])
    /\ call.arg.t = "obj"
    /\ \A i \in 1..Len(call.arg.vs) : IsLeaf(call.arg.vs[i]) /\ call.arg.vs[i] # F

\* C3: in that case every callback registered on a path k that is a key of the
\* partial is invoked, and no callback registered only on paths that are not keys
\* of the partial is invoked.
C3_SelectiveDispatch ==
    C3_Case =>
        /\ ~err
        /\ \A r \in Registered(events) :
              r.path \in KeysOf(call.arg) => Invoked(fired, r.path, r.cb)
        /\ \A r \in Registered(events) :
              (\A q \in Registered(events) : q.cb = r.cb => q.path \notin KeysOf(call.arg))
              => \A i \in 1..Len(fired) : fired[i].cb # r.cb

\* one subscriber on a key of the partial is invoked, another on a different path
\* is not
C3_Witness ==
    /\ C3_Case
    /\ \E r \in Registered(events) : r.path \in KeysOf(call.arg) /\ Invoked(fired, r.path, r.cb)
    /\ \E r \in Registered(events) :
          /\ \A q \in Registered(events) : q.cb = r.cb => q.path \notin KeysOf(call.arg)
          /\ \A i \in 1..Len(fired) : fired[i].cb # r.cb

\* C4: after a reset the state is structurally equal to the state passed at
\* construction, whatever set calls came before.
C4_ResetRestoresInitial ==
    call.op = "reset" => ~err /\ StateTree = InitialTree(tmpl)

\* C5: for a structured state, default stays structurally equal to the state passed
\* at construction and shares no object or array with the live state.
C5_DefaultIndependent ==
    TypeofObject(default) =>
        /\ DefaultTree = InitialTree(tmpl)
        /\ Addresses(heap, default) \cap Addresses(heap, state) = {}

\* the paths of the leaves of tr, each the dot-joined keys from the root
RECURSIVE LeafPaths(_, _)
LeafPaths(tr, prefix) ==
    IF IsLeaf(tr) THEN {JoinDot(prefix)}
    ELSE UNION {LeafPaths(tr.vs[i], Append(prefix, tr.ks[i])) : i \in 1..Len(tr.ks)}

\* C6: a reset invokes every callback registered on the container's key or on a
\* leaf path of the state.
C6_ResetNotifiesAll ==
    call.op = "reset" =>
        \A r \in Registered(events) :
            (r.path = key \/ r.path \in LeafPaths(StateTree, <<>>))
            => Invoked(fired, r.path, r.cb)

\* C7: unsubscribe(paths) removes every registration under those paths and raises
\* no error, changing nothing when there is none; a set or reset invokes a callback
\* only through a registration that exists when it is called; and a registration
\* comes into being only by addListeners.  So a callback removed from a path is not
\* invoked through it by any later set or reset until it is registered again.
C7_NoListenerLeak ==
    [][/\ call'.op = "unsubscribe" =>
            /\ ~err'
            /\ \A r \in Registered(events') : ~InSeq(r.path, call'.ls)
            /\ \A r \in Registered(events) : ~InSeq(r.path, call'.ls) => r \in Registered(events')
            /\ (\A r \in Registered(events) : ~InSeq(r.path, call'.ls)) => events' = events
            /\ ToTree(heap', state') = ToTree(heap, state)
            /\ ToTree(heap', default') = ToTree(heap, default)
       /\ call'.op \in {"set", "reset"} =>
            /\ events' = events
            /\ \A i \in 1..Len(fired') :
                  [path |-> fired'[i].path, cb |-> fired'[i].cb] \in Registered(events)
       /\ call'.op # "addListeners" => Registered(events') \subseteq Registered(events)]_vars

\* an unsubscribe that removed registrations and left others
C7_Witness ==
    /\ call.op = "unsubscribe"
    /\ call.arg.n > 0
    /\ events # <<>>
    /\ \A r \in Registered(events) : ~InSeq(r.path, call.ls)

\* the elements of the array under the state's key "list"
ListOf(tr) == At(tr, "list").vs

\* the partial is {list: {index: value, ...}} with at least one index
IsIndexPartial(part) ==
    /\ part.t = "obj"
    /\ part.ks = <<"list">>
    /\ part.vs[1].t = "obj"
    /\ part.vs[1].ks # <<>>

\* every listed index is inside the array, and no listed value is a structure
\* aimed at a slot that holds an array (the recursive case of spreadArray)
C8_Case(pre, part) ==
    /\ IsIndexPartial(part)
    /\ \A i \in 1..Len(part.vs[1].ks) :
          /\ parseInt(part.vs[1].ks[i]) # NaN
          /\ parseInt(part.vs[1].ks[i]) < Len(pre)
          /\ ~(~IsLeaf(part.vs[1].vs[i]) /\ pre[parseInt(part.vs[1].ks[i]) + 1].t = "arr")

\* C8: for a state key holding an array and a set whose partial maps in-range
\* indices of that array to values, after the set each listed index holds the
\* supplied value, every other index is unchanged and the length is unchanged.
C8_SpliceInPlace ==
    [][(/\ tmpl = "list"
        /\ call'.op = "set"
        /\ C8_Case(ListOf(ToTree(heap, state)), call'.arg))
       => /\ ~err'
          /\ Len(ListOf(ToTree(heap', state'))) = Len(ListOf(ToTree(heap, state)))
          /\ \A j \in 1..Len(ListOf(ToTree(heap, state))) :
                ListOf(ToTree(heap', state'))[j] =
                    IF ToString(j - 1) \in KeysOf(call'.arg.vs[1])
                    THEN At(call'.arg.vs[1], ToString(j - 1))
                    ELSE ListOf(ToTree(heap, state))[j]]_vars

\* a set has just replaced two in-range elements of a longer array, the others
\* as they were at construction
C8_Witness ==
    /\ tmpl = "list"
    /\ call.op = "set"
    /\ ~err
    /\ IsIndexPartial(call.arg)
    /\ call.arg.vs[1].ks = <<"0", "1">>
    /\ Len(ListOf(StateTree)) = 2
    /\ ListOf(StateTree)[1] = call.arg.vs[1].vs[1]
    /\ ListOf(StateTree)[2] = call.arg.vs[1].vs[2]
    /\ ListOf(StateTree)[1] # ListOf(InitialTree(tmpl))[1]

\* C9: for a state key holding an array and a set whose partial maps one index
\* greater than the array's length to a value, the existing elements keep their
\* values and order and the supplied value is added as one new element after them.
C9_GrowthByOne ==
    [][(/\ tmpl = "list"
        /\ call'.op = "set"
        /\ IsIndexPartial(call'.arg)
        /\ Len(call'.arg.vs[1].ks) = 1
        /\ parseInt(call'.arg.vs[1].ks[1]) # NaN
        /\ parseInt(call'.arg.vs[1].ks[1]) > Len(ListOf(ToTree(heap, state))))
       => /\ ~err'
          /\ ListOf(ToTree(heap', state')) =
                Append(ListOf(ToTree(heap, state)), call'.arg.vs[1].vs[1])]_vars

\* C10 as stated: set called with an updater function stores neither the function
\* as the state nor treats it as the partial; what the function returns is applied.
\* Whatever the function returns, a primitive state is then not the function.
C10_UpdaterInvoked ==
    (call.op = "set" /\ call.arg.t = "fn") => state.t # "fn"

\* C10 amended: set never invokes a function argument.  On a primitive state the
\* function itself becomes the state and the fired paths are the explicit list
\* or, without one, the container's listeners; on a structured state the function
\* is taken as the partial: the state stays the same object with every leaf as it
\* was, and the fired paths are the explicitly listed ones, or none at all when the
\* merge raised an error.
C10_FunctionIsStoredOrMerged ==
    [][(call'.op = "set" /\ call'.arg.t = "fn") =>
         IF ~TypeofObject(state)
         THEN /\ ~err'
              /\ state' = Fn(Updater.n)
              /\ Calls(fired') = Calls(emit(events, heap', IF call'.ls = <<>> THEN listeners
                                                                ELSE call'.ls, state').fired)
              /\ \A i \in 1..Len(fired') : fired'[i].payload = state'
         ELSE /\ state' = state
              /\ ToTree(heap', state') = ToTree(heap, state)
              /\ Calls(fired') = IF err' THEN <<>>
                                 ELSE Calls(emit(events, heap', call'.ls, state').fired)]_vars

\* a function was set on a primitive state, is now the state, and a subscriber of
\* the container's key was handed it
C10_Witness ==
    /\ call.op = "set"
    /\ call.arg.t = "fn"
    /\ state.t = "fn"
    /\ \E i \in 1..Len(fired) : fired[i].path = key /\ fired[i].payload.t = "fn"

\* the i-th invocation of fd was handed a structure of its own: a copy of the state
\* st that shares no object with the state, the default, what a subscriber kept
\* earlier, or what any other invocation was handed
OwnCopy(h, fd, i, st, df, hd) ==
    /\ TypeofObject(fd[i].payload)
    /\ ToTree(h, fd[i].payload) = JsonTree(ToTree(h, st))
    /\ Addresses(h, fd[i].payload)
          \cap (Addresses(h, st) \cup Addresses(h, df) \cup Addresses(h, hd)) = {}
    /\ \A j \in 1..Len(fd) :
          j # i => Addresses(h, fd[i].payload) \cap Addresses(h, fd[j].payload) = {}

\* C11: every callback invoked by a set or reset on a structured state is handed its
\* own deep copy of the state, and a subscriber writing to the value it was handed
\* changes neither the container's state or default nor the value handed to any
\* other callback of the same dispatch (a later dispatch hands out fresh copies).
C11_PayloadIsOwnCopy ==
    [][/\ (call'.op \in {"set", "reset"} /\ TypeofObject(state')) =>
            \A i \in 1..Len(fired') : OwnCopy(heap', fired', i, state', default', held')
       /\ call'.op = "mutate" =>
            /\ ToTree(heap', state') = ToTree(heap, state)
            /\ ToTree(heap', default') = ToTree(heap, default)
            /\ \A j \in 1..Len(fired) :
                  fired[j].payload # held =>
                     ToTree(heap', fired'[j].payload) = ToTree(heap, fired[j].payload)]_vars

\* a subscriber has written to the value it kept from a dispatch in which another
\* callback was invoked too, and the two values now differ
C11_Witness ==
    /\ call.op = "mutate"
    /\ Len(fired) >= 2
    /\ \E i, j \in 1..Len(fired) :
          /\ fired[i].payload = held
          /\ fired[j].cb # fired[i].cb
          /\ ToTree(heap, fired[j].payload) = JsonTree(StateTree)
          /\ ToTree(heap, held) # JsonTree(StateTree)

\* the paths a set without explicit listeners fires: those makeUniqueKeys derives
\* from the partial part on a structured state st, the listeners lsn otherwise
DerivedPaths(st, lsn, part) == IF TypeofObject(st) THEN SelectorPaths(part) ELSE lsn

\* C12: a set with a non-empty explicit listener list fires exactly that list,
\* whatever the partial: the callbacks registered on the listed paths are invoked and
\* no other; a set without one fires the paths derived from the partial (structured
\* state) or the container's listeners (primitive state).
C12_FiredPathsAsListed ==
    [][call'.op = "set" =>
         Calls(fired') = Calls(emit(events, heap',
                                    IF call'.ls # <<>> THEN call'.ls
                                    ELSE DerivedPaths(state, listeners, call'.arg),
                                    state').fired)]_vars

\* the leaves of tr with their paths, as pairs <<path, value>>
RECURSIVE Leaves(_, _)
Leaves(tr, prefix) ==
    IF IsLeaf(tr) THEN {<<JoinDot(prefix), tr>>}
    ELSE UNION {Leaves(tr.vs[i], Append(prefix, tr.ks[i])) : i \in 1..Len(tr.ks)}

\* what is stored at each path: the leaves of a structured state, the whole of a
\* primitive state under the container's key k
Stored(h, st, k) ==
    IF TypeofObject(st) THEN Leaves(ToTree(h, st), <<>>) ELSE {<<k, ToTree(h, st)>>}

\* the paths whose stored value after differs from the value before
ChangedPaths(before, after) == {x[1] : x \in after \ before}

\* C13 as stated: a set without explicit listeners invokes a callback registered on
\* path p only if the value stored at p after the set differs from the value before.
C13_OnlyChangedPathsNotified ==
    [][(call'.op = "set" /\ call'.ls = <<>>) =>
         \A i \in 1..Len(fired') :
            fired'[i].path \in ChangedPaths(Stored(heap, state, key),
                                            Stored(heap', state', key))]_vars

\* C13 amended: a set without explicit listeners invokes a callback registered on
\* path p only if p is one of the paths derived from the partial (structured state)
\* or of the container's listeners (primitive state), whether or not the value
\* stored at p changed.
C13_OnlyDerivedPathsNotified ==
    [][(call'.op = "set" /\ call'.ls = <<>>) =>
         \A i \in 1..Len(fired') :
            fired'[i].path \in Range(DerivedPaths(state, listeners, call'.arg))]_vars

\* a set has invoked a callback on a path of the partial where the stored value is
\* not the one supplied (a leaf holding false is kept), while a subscriber
\* registered on another path only was left alone
C13_Witness ==
    /\ call.op = "set"
    /\ call.ls = <<>>
    /\ ~err
    /\ \E i \in 1..Len(fired), x \in Leaves(call.arg, <<>>) :
          /\ fired[i].path = x[1]
          /\ x \notin Stored(heap, state, key)
    /\ \E r \in Registered(events) : \A i \in 1..Len(fired) : fired[i].cb # r.cb

\* C14: useSelector called with a container whose state is a primitive raises an
\* error and registers no listener on the container.
C14_SelectorOnPrimitiveRejected ==
    [][(call'.op = "useSelector" /\ ~TypeofObject(state)) =>
         (err' /\ events' = events)]_vars

\* C15: useSelector called with a selector that is not a structure raises an error
\* instead of subscribing to nothing.
C15_PrimitiveSelectorRejected ==
    [][(call'.op = "useSelector" /\ IsLeaf(call'.arg)) =>
         (err' /\ events' = events)]_vars

\* C17: in the registry API addState raises an error when the key is missing or
\* empty or a state with the same key is already registered, leaving the registry
\* unchanged; otherwise it registers exactly one new entry under that key.
C17_AddStateGuardsRegistry ==
    [][call'.op = "addState" =>
         IF KeyMissing(call'.arg.key) \/ call'.arg.key.s \in DOMAIN store
         THEN err' /\ store' = store
         ELSE /\ ~err'
              /\ DOMAIN store' = DOMAIN store \cup {call'.arg.key.s}
              /\ \A j \in DOMAIN store : store'[j] = store[j]
              /\ store'[call'.arg.key.s].key = call'.arg.key
              /\ store'[call'.arg.key.s].event = <<>>]_vars

\* a key on which the partial and the state disagree in kind: a structure written
\* over a leaf, or a leaf written over a structure
Mismatch(st, part) ==
    /\ ~IsLeaf(st)
    /\ ~IsLeaf(part)
    /\ \E i \in 1..Len(part.ks), j \in 1..Len(st.ks) :
          /\ part.ks[i] = st.ks[j]
          /\ IsLeaf(part.vs[i]) # IsLeaf(st.vs[j])

\* C16: a set whose partial is structurally incompatible with the current state is
\* reported as an error, leaves the state unchanged and fires no notification.
C16_ShapeMismatchRejected ==
    [][(call'.op = "set" /\ Mismatch(ToTree(heap, state), call'.arg)) =>
         (err' /\ ToTree(heap', state') = ToTree(heap, state) /\ fired' = <<>>)]_vars

\* the true paths of the leaves of tr that are not the literal false
TruePaths(tr) == {x[1] : x \in {y \in Leaves(tr, <<>>) : y[2] # F}}

\* C18: for a nested structure of objects and arrays makeUniqueKeys returns exactly
\* one path per primitive leaf that is not the literal false, each the dot-joined
\* sequence of keys from the root to that leaf.
C18_PathsAreTruePaths ==
    (call.op = "useSelector" /\ ~IsLeaf(call.arg)) =>
        /\ Range(call.ls) = TruePaths(call.arg)
        /\ Len(call.ls) = Cardinality(TruePaths(call.arg))

\* C19: no change is missed: after a set without explicit listeners on a structured
\* state, every callback registered on the path of a leaf whose stored value
\* differs from the value before has been invoked during that set.
C19_NoChangeMissed ==
    [][(call'.op = "set" /\ call'.ls = <<>> /\ TypeofObject(state)) =>
         \A r \in Registered(events) :
            r.path \in ChangedPaths(Stored(heap, state, key), Stored(heap', state', key))
            => Invoked(fired', r.path, r.cb)]_vars

\* C20: an unsubscribe is issued for one subscriber and ends the subscriptions of
\* that subscriber only: the registrations of every other callback are still there
\* after it.
C20_OthersStaySubscribed ==
    [][call'.op = "unsubscribe" =>
         \E b \in 1..MaxSubs :
            \A r \in Registered(events) : r.cb # b => r \in Registered(events')]_vars

\* the invocations of the set a callback makes, as [path, cb] in order
NestedCalls ==
    Calls(emit(events, heap, DerivedPaths(state, listeners, call.react.p), state).fired)

\* the invocations i+1 .. i+Len(nc) are those of the nested set, none is later
NestedAt(fd, i, nc) ==
    /\ Len(fd) >= i + Len(nc)
    /\ \A j \in 1..Len(nc) :
          /\ fd[i + j].depth = 1
          /\ fd[i + j].path = nc[j].path
          /\ fd[i + j].cb = nc[j].cb
    /\ \A j \in (i + Len(nc) + 1)..Len(fd) : fd[j].depth = 0

\* C21: dispatch is re-entrant and depth-first: when a callback invoked during a
\* set's dispatch calls set, the nested set's commit and all its invocations come
\* before any remaining invocation of the outer dispatch, and nothing is queued
\* behind the outer dispatch.
C21_DepthFirst ==
    (call.op = "dispatch" /\ ~err) =>
        \A i \in 1..Len(fired) :
            fired[i].sets =>
                /\ NestedAt(fired, i, NestedCalls)
                /\ \A j \in (i + 1)..Len(fired) : fired[j].now = StateTree

\* a callback called set in the middle of a dispatch: its set changed the state,
\* invoked callbacks, and the outer dispatch went on after it
C21_Witness ==
    /\ call.op = "dispatch"
    /\ ~err
    /\ \E i \in 1..Len(fired) :
          /\ fired[i].sets
          /\ fired[i].now # StateTree
          /\ Len(NestedCalls) > 0
          /\ Len(fired) > i + Len(NestedCalls)

\* C22: every callback invocation is passed a value structurally equal to the
\* container's state at the moment of the invocation.
C22_PayloadIsCurrentState ==
    call.op = "dispatch" =>
        \A i \in 1..Len(fired) : ToTree(heap, fired[i].payload) = fired[i].now

\* the leaves that are properties of objects reached from the root through object
\* keys only, as <<path, leaf>>
RECURSIVE ObjLeaves(_, _)
ObjLeaves(tr, prefix) ==
    IF IsLeaf(tr) THEN {<<JoinDot(prefix), tr>>}
    ELSE IF tr.t = "arr" THEN {}
    ELSE UNION {ObjLeaves(tr.vs[i], Append(prefix, tr.ks[i])) : i \in 1..Len(tr.ks)}

\* C23 as stated: a leaf of an object-shaped state that holds the literal false is
\* never overwritten by set or reset.
C23_FalseLeafKept ==
    [][call'.op \in {"set", "reset"} =>
         \A x \in Leaves(ToTree(heap, state), <<>>) :
            x[2] = F => x \in Leaves(ToTree(heap', state'), <<>>)]_vars

\* C23 amended: a leaf that is a property of an object of the state, reached from
\* the root through object keys only, and that holds the literal false is never
\* overwritten by set or reset.
C23_FalseObjectLeafKept ==
    [][call'.op \in {"set", "reset"} =>
         \A x \in ObjLeaves(ToTree(heap, state), <<>>) :
            x[2] = F => x \in ObjLeaves(ToTree(heap', state'), <<>>)]_vars

\* a set supplied a value other than false for a leaf that an earlier set had made
\* false, and the leaf still holds false
C23_Witness ==
    /\ call.op = "set"
    /\ ~err
    /\ \E x \in ObjLeaves(StateTree, <<>>), y \in Leaves(call.arg, <<>>),
          z \in Leaves(InitialTree(tmpl), <<>>) :
          /\ x[1] = y[1]
          /\ x[1] = z[1]
          /\ x[2] = F
          /\ y[2] # F
          /\ z[2] # F

\* what a slot holds once the supplied value v is applied to it: v itself, or, when
\* v is an index-keyed partial and the slot an array, the slot with v applied to
\* its own slots
RECURSIVE Applied(_, _)
Applied(slot, v) ==
    IF IsLeaf(v) \/ slot.t # "arr" THEN v
    ELSE [slot EXCEPT !.vs = [j \in 1..Len(slot.vs) |->
                                 IF ToString(j - 1) \in KeysOf(v)
                                 THEN Applied(slot.vs[j], At(v, ToString(j - 1)))
                                 ELSE slot.vs[j]]]

\* the partial lists indices of the array pre, all of them inside it
InRange(pre, part) ==
    /\ IsIndexPartial(part)
    /\ \A i \in 1..Len(part.vs[1].ks) :
          /\ parseInt(part.vs[1].ks[i]) # NaN
          /\ parseInt(part.vs[1].ks[i]) < Len(pre)

\* C24: an array partial is applied in full: after the set every listed index holds
\* the supplied value, or the slot with the supplied index-keyed partial applied to
\* it when the slot is an array; no listed index is skipped.
C24_ArrayPartialAppliedInFull ==
    [][(/\ tmpl = "list"
        /\ call'.op = "set"
        /\ InRange(ListOf(ToTree(heap, state)), call'.arg))
       => \A i \in 1..Len(call'.arg.vs[1].ks) :
             ListOf(ToTree(heap', state'))[parseInt(call'.arg.vs[1].ks[i]) + 1] =
                Applied(ListOf(ToTree(heap, state))[parseInt(call'.arg.vs[1].ks[i]) + 1],
                        call'.arg.vs[1].vs[i])]_vars

\* C25: in the registry API the setter returned by useStore for the store under key
\* K emits the event the components mounted for K listen to, for every non-empty
\* K, so the callback of each of those components is invoked.
C25_UseStoreSetterNotifies ==
    call.op = "useStoreSet" =>
        \A g \in Registered(store[call.key].event) :
            g.path = EventName(call.key) => \E i \in 1..Len(fired) : fired[i].cb = g.cb

\* the object nodes reached from the root through object keys only, each as its
\* path and its keys in order
RECURSIVE ObjNodes(_, _)
ObjNodes(tr, prefix) ==
    IF tr.t # "obj" THEN {}
    ELSE {<<JoinDot(prefix), tr.ks>>}
         \cup UNION {ObjNodes(tr.vs[i], Append(prefix, tr.ks[i])) : i \in 1..Len(tr.ks)}

\* C26: set never adds a key to an existing object node of the state, at any depth:
\* a key of the partial that the corresponding object lacks is ignored, so the
\* top-level state object keeps the key set it had at construction through every
\* set and reset.
C26_NoKeyAdded ==
    [][call'.op \in {"set", "reset"} =>
         /\ \A x \in ObjNodes(ToTree(heap, state), <<>>) :
               x \in ObjNodes(ToTree(heap', state'), <<>>)
         /\ ToTree(heap', state').ks = InitialTree(tmpl).ks]_vars

\* a set that wrote the leaves it was given has ignored a key its partial supplied
\* at the top level and one it supplied inside a nested object
C26_Witness ==
    /\ call.op = "set"
    /\ ~err
    /\ "z" \in KeysOf(call.arg) \ KeysOf(StateTree)
    /\ At(StateTree, "a") = At(call.arg, "a")
    /\ \E k \in KeysOf(call.arg) \cap KeysOf(StateTree) :
          /\ At(StateTree, k).t = "obj"
          /\ At(call.arg, k).t = "obj"
          /\ KeysOf(At(call.arg, k)) \ KeysOf(At(StateTree, k)) # {}

\* C27: the container's key and its listeners list are fixed at construction: no
\* set, reset, addListeners or unsubscribe changes either, and listeners is not
\* derived anew when a set changes the shape of the state.
C27_KeyAndListenersFixed ==
    /\ key = StoreKey
    /\ listeners = Created(tmpl).listeners

\* a set has grown the state's array while callbacks are registered: the listeners
\* are still those of construction, not those the state would give now
C27_Witness ==
    /\ tmpl = "list"
    /\ call.op = "set"
    /\ ~err
    /\ events # <<>>
    /\ Len(ListOf(StateTree)) > Len(ListOf(InitialTree(tmpl)))
    /\ listeners # ListenersOf(heap, state, key)

====
